---------------------------- MODULE Spec2Model ----------------------------
(***************************************************************************)
(* A model of ilmsdump (src/ilmsdump.py): the authenticated scraping       *)
(* client of the iLMS portal.                                              *)
(*                                                                         *)
(*   SpecAuth    the credentials file, the cookie jar and the login paths  *)
(*               (ensure_authenticated, clear_credentials,                 *)
(*               interactive_login, login_with_username_and_password,      *)
(*               login_with_phpsessid, get_login_state)                    *)
(*   SpecPaginator  one stream of ILMSClient._response_paginator and its   *)
(*               consumer                                                  *)
(*   SpecCourse  ILMSClient.get_course, the single lookup of a course      *)
(*   SpecExtract the four extractors of Course over one parsed page        *)
(*   SpecCourses ILMSClient.get_courses over the all-courses listing       *)
(*   SpecForeach foreach_course over get_course and get_courses            *)
(*   SpecMain    main: logout, login and the requested courses             *)
(*   SpecStreams two streams of Course._item_paginator side by side        *)
(*   SpecAnnouncements  Course.get_announcements over the pages of its     *)
(*               paginator                                                 *)
(*                                                                         *)
(* Strings whose content the code inspects (tokens, file contents, names)  *)
(* are sequences of one-character strings.  The portal is the environment: *)
(* every request is answered (HTTP 2xx) with a nondeterministically chosen *)
(* payload or page.  Assertions are enabled (the interpreter's default).   *)
(***************************************************************************)
EXTENDS Integers, Sequences, FiniteSets, TLC

\* Longest session token typed by the user or issued by the portal.
MaxTokLen == 2

\* Highest page number the paginator is let to request.
MaxPage == 3

\* Most rows of a listing page.
MaxRows == 2

\* Most anchors of the all-courses listing.
MaxAnchors == 2

\* Most course ids given to foreach_course.
MaxIds == 2

VARIABLES
    credFile,      \* credentials.txt: [exists, data]
    jar,           \* session.cookie_jar, the PHPSESSID cookie: [has, val]
    pc,            \* position of the client's control
    via,           \* how ensure_authenticated reached the login: stored / interactive
    arg,           \* argument of the running login: [user, pass, token]
    result,        \* what the last finished call gave its caller
    loginRequests, \* GETs of LOGIN_URL issued by the running call
    probeSent,     \* cookie carried by each GET of LOGIN_STATE_URL of the running call
    probePage,     \* the page the last probe received
    probeRet,      \* what get_login_state returned for it
    loginPayload,  \* json_body['ret'] of the last login response
    log,           \* what the running call passed to self.log
    lastSaved,     \* cookie value the last completed save printed into the file
    \* ---- _response_paginator: one generator object and its consumer
    pgPc,          \* created / awaiting / suspended / done / error
    start,         \* the page argument
    page,          \* the loop variable
    params,        \* the params dict: [f, page], page 0 while unset
    html,          \* the parsed page the generator holds
    requested,     \* the page parameter of every GET issued, in order
    served,        \* the page the portal answered each GET with
    yielded,       \* the page numbers handed to the consumer, in order
    pgErr,         \* the exception that ended the generator
    pulls,         \* how often the consumer has pulled the generator
    \* ---- get_course
    gcPc,          \* idle / awaiting / done
    gcId,          \* the course_id argument
    gcResp,        \* the response of the last lookup: [empty, names, add, path]
    gcResult,      \* what the last lookup gave its caller: [kind, msg, course]
    \* ---- the extractors, over one parsed page
    exPc,          \* running / done / error
    exKind,        \* the f parameter: news / doclist / forumlist / hwlist
    exCourse,      \* self.id of the Course the extractor is called on
    exRows,        \* the tr elements under the element with id "main"
    exIdx,         \* how many nodes of the xpath result the loop has taken
    exOut,         \* the records yielded, in order
    exErr,         \* the exception that ended the extractor
    \* ---- get_announcements: the extractor over the pages of its paginator
    lsPc,          \* waiting (for the consumer's pull) / busy
    servedRows,    \* the tr elements of each page the portal served, in order
    \* ---- get_courses: the all-courses listing
    csPc,          \* position of the get_courses generator
    csAnchors,     \* the //td[@class="listTD"]/a elements of the served page
    csIdx,         \* anchors the loop has taken
    csOut,         \* Courses yielded so far
    csErr,         \* exception that ended get_courses
    \* ---- foreach_course: the Courses of a list of requested ids
    fcPc,          \* position of the foreach_course generator
    fcIds,         \* its course_ids argument
    fcIdx,         \* ids the loop has taken
    fcTaken,       \* Courses of the running get_courses it has passed on
    fcOut,         \* Courses yielded so far
    fcErr,         \* exception that ended foreach_course
    fcHist,        \* per finished id: the id and what the portal answered
    \* ---- main: one run of the command
    mPc,           \* position of main
    mLogout,       \* --logout
    mLogin,        \* --login
    mIds,          \* the course ids of the command line
    mChanged,      \* changed
    mOut,          \* what main printed last
    mErr,          \* exception that left main
    \* ---- _item_paginator: two pagination streams side by side
    stSelf,        \* per stream: the Course id and the kind it was created for
    stPc,          \* per stream: none / created / awaiting / suspended / done / error
    stRef,         \* per stream: the address of its params dict
    stDicts,       \* the params dicts, by address: [courseID, f, page]
    stPage,        \* per stream: the loop variable page
    stHtml,        \* per stream: the parsed page the generator holds
    stReq          \* per stream: the query parameters of every GET issued, in order

authVars == <<credFile, jar, pc, via, arg, result, loginRequests,
              probeSent, probePage, probeRet, loginPayload, log, lastSaved>>

pagVars == <<pgPc, start, page, params, html, requested, served, yielded, pgErr,
             pulls>>

courseVars == <<gcPc, gcId, gcResp, gcResult>>

exVars == <<exPc, exKind, exCourse, exRows, exIdx, exOut, exErr>>

listVars == <<lsPc, servedRows>>

coursesVars == <<csPc, csAnchors, csIdx, csOut, csErr>>

foreachVars == <<fcPc, fcIds, fcIdx, fcTaken, fcOut, fcErr, fcHist>>

mainVars == <<mPc, mLogout, mLogin, mIds, mChanged, mOut, mErr>>

streamVars == <<stSelf, stPc, stRef, stDicts, stPage, stHtml, stReq>>

vars == <<authVars, pagVars, courseVars, exVars, listVars, coursesVars, foreachVars, mainVars, streamVars>>

nonAuthVars == <<pagVars, courseVars, exVars, listVars, coursesVars, foreachVars, mainVars, streamVars>>
nonPagVars == <<authVars, courseVars, exVars, listVars, coursesVars, foreachVars, mainVars, streamVars>>
nonCourseVars == <<authVars, pagVars, exVars, listVars, coursesVars, foreachVars, mainVars, streamVars>>
nonExVars == <<authVars, pagVars, courseVars, listVars, coursesVars, foreachVars, mainVars, streamVars>>
nonListingVars == <<authVars, courseVars, coursesVars, foreachVars, mainVars, streamVars>>
nonCoursesVars == <<authVars, pagVars, courseVars, exVars, listVars, foreachVars, mainVars, streamVars>>
nonForeachVars == <<authVars, pagVars, exVars, listVars, mainVars, streamVars>>
nonMainVars == <<authVars, pagVars, courseVars, exVars, listVars, coursesVars, streamVars>>
nonStreamVars == <<authVars, pagVars, courseVars, exVars, listVars, coursesVars, foreachVars, mainVars>>

---------------------------------------------------------------------------
(* Strings *)

SP == " "
NL == "\n"
Chars == {"a", SP}

SeqsUpTo(S, n) == UNION {[1..k -> S] : k \in 0..n}

\* what the user may type at the PHPSESSID prompt
Tokens == SeqsUpTo(Chars, MaxTokLen)

\* what the portal puts into a Set-Cookie header: no whitespace, not empty
IssuedTokens == {t \in Tokens : t # <<>> /\ \A i \in 1..Len(t) : t[i] # SP}

IsSpace(c) == c \in {SP, NL}

RECURSIVE LStrip(_)
LStrip(s) == IF s # <<>> /\ IsSpace(Head(s)) THEN LStrip(Tail(s)) ELSE s

RECURSIVE RStrip(_)
RStrip(s) == IF s # <<>> /\ IsSpace(s[Len(s)]) THEN RStrip(SubSeq(s, 1, Len(s) - 1)) ELSE s

\* str.strip()
Strip(s) == RStrip(LStrip(s))

RECURSIVE Join(_)
\* ''.join(nodes)
Join(nodes) == IF nodes = <<>> THEN <<>> ELSE Head(nodes) \o Join(Tail(nodes))

---------------------------------------------------------------------------
(* The portal's answers *)

NoCookie == [has |-> FALSE, val |-> <<>>]
Cookie(t) == [has |-> TRUE, val |-> t]

NoFile == [exists |-> FALSE, data |-> <<>>]
File(d) == [exists |-> TRUE, data |-> d]

Usernames == {"", "alice"}
Passwords == {"pw"}
Statuses == {"true", "false", "True"}
Names == {<<"a">>}

\* login_submit.php: the JSON body's ret object and the Set-Cookie it carries
LoginResponses ==
    [ret : [status : Statuses, name : Names],
     setCookie : {NoCookie} \cup {Cookie(t) : t \in IssuedTokens}]

\* home.php: whether an element with id "login" exists, and the text nodes
\* at //*[@id="profile"]/div[2]/div[1]
ProfileTexts == {<<>>, << <<"a">> >>, << <<SP>>, <<"a">>, <<NL>> >>}
ProbePages == [hasLogin : BOOLEAN, nameNodes : ProfileTexts]

NoPage == [hasLogin |-> FALSE, nameNodes |-> <<>>]

---------------------------------------------------------------------------
(* Return values and results *)

RetNone == [kind |-> "None", name |-> <<>>]
RetName(n) == [kind |-> "name", name |-> n]
RetAssert == [kind |-> "AssertionError", name |-> <<>>]
NoRet == [kind |-> "none", name |-> <<>>]

NoPayload == [status |-> "", name |-> <<>>]
NoArg == [user |-> "", pass |-> "", token |-> <<>>]

Result(o, out, payload, flag) ==
    [op |-> o, outcome |-> out, payload |-> payload, flag |-> flag]
NoResult == Result("none", "none", NoPayload, FALSE)

---------------------------------------------------------------------------
(* The state of a freshly constructed client and of an unstarted generator *)

NoHtml == [nextHrefs |-> <<>>]

NoCourse == [id |-> 0, name |-> "", is_admin |-> FALSE]
NoCourseResp == [empty |-> TRUE, names |-> <<>>, add |-> FALSE, path |-> ""]
NoCourseResult == [kind |-> "none", msg |-> "", course |-> NoCourse]

CourseFresh ==
    /\ gcPc = "idle"
    /\ gcId = 0
    /\ gcResp = NoCourseResp
    /\ gcResult = NoCourseResult

ExFresh ==
    /\ exPc = "done"
    /\ exKind = "news"
    /\ exCourse = 0
    /\ exRows = <<>>
    /\ exIdx = 0
    /\ exOut = <<>>
    /\ exErr = "none"

AuthFresh ==
    /\ credFile = NoFile
    /\ jar = NoCookie
    /\ pc = "idle"
    /\ via = "none"
    /\ arg = NoArg
    /\ result = NoResult
    /\ loginRequests = 0
    /\ probeSent = <<>>
    /\ probePage = NoPage
    /\ probeRet = NoRet
    /\ loginPayload = NoPayload
    /\ log = <<>>
    /\ lastSaved = NoCookie

PagFresh ==
    /\ pgPc = "created"
    /\ start = 1
    /\ page = 0
    /\ params = [f |-> "news", page |-> 0]
    /\ html = NoHtml
    /\ requested = <<>>
    /\ served = <<>>
    /\ yielded = <<>>
    /\ pgErr = "none"
    /\ pulls = 0

ListFresh ==
    /\ lsPc = "waiting"
    /\ servedRows = <<>>

CoursesFresh ==
    /\ csPc = "created"
    /\ csAnchors = <<>>
    /\ csIdx = 0
    /\ csOut = <<>>
    /\ csErr = "none"

ForeachFresh ==
    /\ fcPc = "idle"
    /\ fcIds = <<>>
    /\ fcIdx = 0
    /\ fcTaken = 0
    /\ fcOut = <<>>
    /\ fcErr = "none"
    /\ fcHist = <<>>

MainFresh ==
    /\ mPc = "idle"
    /\ mLogout = FALSE
    /\ mLogin = FALSE
    /\ mIds = <<>>
    /\ mChanged = FALSE
    /\ mOut = ""
    /\ mErr = "none"

NoDict == [courseID |-> 0, f |-> "", page |-> 0]

StreamFresh ==
    /\ stSelf = [s \in 1..2 |-> [course |-> 0, f |-> ""]]
    /\ stPc = [s \in 1..2 |-> "none"]
    /\ stRef = [s \in 1..2 |-> 0]
    /\ stDicts = [a \in 1..2 |-> NoDict]
    /\ stPage = [s \in 1..2 |-> 0]
    /\ stHtml = [s \in 1..2 |-> NoHtml]
    /\ stReq = [s \in 1..2 |-> <<>>]

---------------------------------------------------------------------------
(* The decisions of the login code, as functions of what the portal sent *)

\* the test on the login element inverted
GetLoginState_Inverted(doc) ==
    IF doc.hasLogin THEN RetNone
    ELSE IF doc.nameNodes = <<>> THEN RetAssert
    ELSE RetName(Strip(Join(doc.nameNodes)))

\* get_login_state, lines 142-147
GetLoginState(doc) ==
    IF ~doc.hasLogin THEN RetNone
    ELSE IF doc.nameNodes = <<>> THEN RetAssert
    ELSE RetName(Strip(Join(doc.nameNodes)))

\* the None check dropped: any probe return counts as logged in
LwpOutcome_NoCheck(ret) ==
    IF ret.kind = "AssertionError" THEN "AssertionError" ELSE "ok"

\* login_with_phpsessid, lines 132-136: how it ends for a probe's return
LwpOutcome(ret) ==
    IF ret.kind = "AssertionError" THEN "AssertionError"
    ELSE IF ret.kind # "None" THEN "ok"
    ELSE "LoginFailed"

\* only the literal "false" counts as a failure
LoginOutcome_OnlyFalse(json_ret) ==
    IF json_ret.status = "false" THEN "LoginFailed" ELSE "ok"

\* login_with_username_and_password, lines 122-125
LoginOutcome(json_ret) ==
    IF json_ret.status # "true" THEN "LoginFailed" ELSE "ok"

\* print(value, file=file), lines 79-82
SaveContents(tok) == tok \o <<NL>>

\* the file's text taken as it is, newline included
Load_NoStrip(data) == data

\* cred_file.read().strip(), line 87
Load(data) == Strip(data)

Msg(m, n) == [msg |-> m, name |-> n]

---------------------------------------------------------------------------
(* SpecAuth *)

ResetCall ==
    /\ loginRequests' = 0
    /\ probeSent' = <<>>
    /\ probePage' = NoPage
    /\ probeRet' = NoRet
    /\ loginPayload' = NoPayload

\* the call ends: a return or a propagated exception
Finish(o, out, payload, flag) ==
    /\ pc' = "idle"
    /\ result' = Result(o, out, payload, flag)

InitAuth ==
    /\ StreamFresh
    /\ MainFresh
    /\ ForeachFresh
    /\ CoursesFresh
    /\ ListFresh
    /\ PagFresh
    /\ CourseFresh
    /\ ExFresh
    /\ credFile \in {NoFile} \cup {File(SaveContents(t)) : t \in IssuedTokens}
    /\ jar = NoCookie
    /\ pc = "idle"
    /\ via = "none"
    /\ arg = NoArg
    /\ result = NoResult
    /\ loginRequests = 0
    /\ probeSent = <<>>
    /\ probePage = NoPage
    /\ probeRet = NoRet
    /\ loginPayload = NoPayload
    /\ log = <<>>
    /\ lastSaved = IF credFile.exists
                   THEN Cookie(Strip(credFile.data)) ELSE NoCookie

\* a new run of the tool: a fresh ClientSession, the same credentials file
ILMSClient_init ==
    /\ UNCHANGED nonAuthVars
    /\ pc = "idle"
    /\ jar' = NoCookie
    /\ via' = "none"
    /\ arg' = NoArg
    /\ result' = NoResult
    /\ log' = <<>>
    /\ ResetCall
    /\ UNCHANGED <<credFile, pc, lastSaved>>

\* the credentials file is opened for writing before the login is tried
ensure_authenticated_EarlyOpen ==
    /\ UNCHANGED nonAuthVars
    /\ pc = "idle"
    /\ result' = NoResult
    /\ ResetCall
    /\ IF ~credFile.exists
       THEN /\ pc' = "interactive_login"
            /\ via' = "interactive"
            /\ arg' = NoArg
            /\ log' = <<>>
            /\ credFile' = File(<<>>)
       ELSE /\ pc' = "login_with_phpsessid"
            /\ via' = "stored"
            /\ arg' = [NoArg EXCEPT !.token = Load(credFile.data)]
            /\ log' = <<Msg("Using existing credentials in", <<>>)>>
            /\ UNCHANGED credFile
    /\ UNCHANGED <<jar, lastSaved>>

\* lines 74-77 and 84-88, up to the awaited login
ensure_authenticated ==
    /\ UNCHANGED nonAuthVars
    /\ pc = "idle"
    /\ result' = NoResult
    /\ ResetCall
    /\ IF ~credFile.exists
       THEN /\ pc' = "interactive_login"
            /\ via' = "interactive"
            /\ arg' = NoArg
            /\ log' = <<>>
       ELSE /\ pc' = "login_with_phpsessid"
            /\ via' = "stored"
            /\ arg' = [NoArg EXCEPT !.token = Load(credFile.data)]
            /\ log' = <<Msg("Using existing credentials in", <<>>)>>
    /\ UNCHANGED <<credFile, jar, lastSaved>>

\* the file is reported removed and left where it is
clear_credentials_Keep ==
    /\ UNCHANGED nonAuthVars
    /\ pc = "idle"
    /\ ResetCall
    /\ via' = "none"
    /\ arg' = NoArg
    /\ log' = <<Msg("Removed saved credentials in", <<>>)>>
    /\ Finish("clear_credentials", "ok", NoPayload, credFile.exists)
    /\ UNCHANGED <<credFile, lastSaved, jar>>

\* lines 90-101
clear_credentials ==
    /\ UNCHANGED nonAuthVars
    /\ pc = "idle"
    /\ ResetCall
    /\ via' = "none"
    /\ arg' = NoArg
    /\ IF ~credFile.exists
       THEN /\ log' = <<Msg("No credentials saved in", <<>>)>>
            /\ Finish("clear_credentials", "ok", NoPayload, FALSE)
            /\ UNCHANGED <<credFile, lastSaved>>
       ELSE /\ credFile' = NoFile
            /\ lastSaved' = NoCookie
            /\ log' = <<Msg("Removed saved credentials in", <<>>)>>
            /\ Finish("clear_credentials", "ok", NoPayload, TRUE)
    /\ UNCHANGED jar

interactive_login ==
    /\ UNCHANGED nonAuthVars
    /\ pc = "interactive_login"
    /\ \E username \in Usernames :
         IF username # ""
         THEN \E password \in Passwords :
                /\ arg' = [NoArg EXCEPT !.user = username, !.pass = password]
                /\ pc' = "login_with_username_and_password"
         ELSE \E phpsessid \in Tokens :
                /\ arg' = [NoArg EXCEPT !.token = phpsessid]
                /\ pc' = "login_with_phpsessid"
    /\ UNCHANGED <<credFile, jar, via, result, loginRequests, probeSent,
                   probePage, probeRet, loginPayload, log, lastSaved>>

login_with_username_and_password ==
    /\ UNCHANGED nonAuthVars
    /\ pc = "login_with_username_and_password"
    /\ \E resp \in LoginResponses :
         /\ loginRequests' = loginRequests + 1
         /\ jar' = IF resp.setCookie.has THEN resp.setCookie ELSE jar
         /\ loginPayload' = resp.ret
         /\ IF LoginOutcome(resp.ret) = "ok"
            THEN /\ log' = Append(log, Msg("Logged in as", resp.ret.name))
                 /\ pc' = "open_w"
                 /\ UNCHANGED result
            ELSE /\ Finish("ensure_authenticated", "LoginFailed", resp.ret, FALSE)
                 /\ UNCHANGED log
    /\ UNCHANGED <<credFile, via, arg, probeSent, probePage, probeRet, lastSaved>>

\* lines 128-131, up to the awaited probe
login_with_phpsessid ==
    /\ UNCHANGED nonAuthVars
    /\ pc = "login_with_phpsessid"
    /\ jar' = Cookie(arg.token)
    /\ pc' = "get_login_state"
    /\ UNCHANGED <<credFile, via, arg, result, loginRequests, probeSent,
                   probePage, probeRet, loginPayload, log, lastSaved>>

\* a stored token the probe rejects is removed from the store
get_login_state_DropRejected ==
    /\ UNCHANGED nonAuthVars
    /\ pc = "get_login_state"
    /\ \E doc \in ProbePages :
         LET ret == GetLoginState(doc)
             out == LwpOutcome(ret)
         IN /\ probeSent' = Append(probeSent, jar)
            /\ probePage' = doc
            /\ probeRet' = ret
            /\ IF out = "ok"
               THEN /\ log' = Append(log, Msg("Logged in as", ret.name))
                    /\ IF via = "interactive"
                       THEN pc' = "open_w" /\ UNCHANGED result
                       ELSE Finish("ensure_authenticated", "ok", NoPayload, FALSE)
                    /\ UNCHANGED credFile
               ELSE /\ Finish("ensure_authenticated", out, NoPayload, FALSE)
                    /\ credFile' = IF via = "stored" THEN NoFile ELSE credFile
                    /\ UNCHANGED log
    /\ UNCHANGED <<jar, via, arg, loginRequests, loginPayload, lastSaved>>

\* the probe, and lines 133-136 of login_with_phpsessid on its return
get_login_state ==
    /\ UNCHANGED nonAuthVars
    /\ pc = "get_login_state"
    /\ \E doc \in ProbePages :
         LET ret == GetLoginState(doc)
             out == LwpOutcome(ret)
         IN /\ probeSent' = Append(probeSent, jar)
            /\ probePage' = doc
            /\ probeRet' = ret
            /\ IF out = "ok"
               THEN /\ log' = Append(log, Msg("Logged in as", ret.name))
                    /\ IF via = "interactive"
                       THEN pc' = "open_w" /\ UNCHANGED result
                       ELSE Finish("ensure_authenticated", "ok", NoPayload, FALSE)
               ELSE /\ Finish("ensure_authenticated", out, NoPayload, FALSE)
                    /\ UNCHANGED log
    /\ UNCHANGED <<credFile, jar, via, arg, loginRequests, loginPayload, lastSaved>>

\* line 78: open(self.cred_path, 'w') creates the file, or truncates it
ensure_authenticated_open_w ==
    /\ UNCHANGED nonAuthVars
    /\ pc = "open_w"
    /\ credFile' = File(<<>>)
    /\ pc' = "print"
    /\ UNCHANGED <<jar, via, arg, result, loginRequests, probeSent,
                   probePage, probeRet, loginPayload, log, lastSaved>>

\* lines 79-83: the cookie lookup raises KeyError when the jar has no PHPSESSID
ensure_authenticated_print ==
    /\ UNCHANGED nonAuthVars
    /\ pc = "print"
    /\ IF ~jar.has
       THEN /\ Finish("ensure_authenticated", "KeyError", NoPayload, FALSE)
            /\ UNCHANGED <<credFile, log, lastSaved>>
       ELSE /\ credFile' = File(SaveContents(jar.val))
            /\ lastSaved' = jar
            /\ log' = Append(log, Msg("Saved credentials to", <<>>))
            /\ Finish("ensure_authenticated", "ok", NoPayload, FALSE)
    /\ UNCHANGED <<jar, via, arg, loginRequests, probeSent, probePage,
                   probeRet, loginPayload>>

NextAuth ==
    \/ ILMSClient_init
    \/ ensure_authenticated
    \/ clear_credentials
    \/ interactive_login
    \/ login_with_username_and_password
    \/ login_with_phpsessid
    \/ get_login_state
    \/ ensure_authenticated_open_w
    \/ ensure_authenticated_print

SpecAuth == InitAuth /\ [][NextAuth]_vars

---------------------------------------------------------------------------
(* Properties of SpecAuth *)

EADone == pc = "idle" /\ result.op = "ensure_authenticated"

\* C1 (as claimed): ensure_authenticated ends either authenticated, with the
\* credentials file holding the active session token, or with LoginFailed;
\* no other error kind and no return without a persisted session.
C1_TwoOutcomes ==
    EADone =>
        \/ result.outcome = "LoginFailed"
        \/ /\ result.outcome = "ok"
           /\ jar.has
           /\ credFile.exists
           /\ Load(credFile.data) = jar.val

LwpReturned ==
    \/ via = "interactive" /\ pc' = "open_w"
    \/ via = "stored" /\ pc' = "idle" /\ result'.outcome = "ok"

\* C3: login_with_phpsessid probes with the token installed as the PHPSESSID
\* cookie; it returns normally, logging the probed name, when the probe gives
\* a name, and raises LoginFailed when the probe gives None.
C3_LoginWithPhpsessid ==
    [][pc = "get_login_state" =>
          /\ probeSent' = <<Cookie(arg.token)>>
          /\ probeRet'.kind = "name" =>
                /\ LwpReturned
                /\ log' = Append(log, Msg("Logged in as", probeRet'.name))
          /\ probeRet'.kind = "None" =>
                /\ ~LwpReturned
                /\ pc' = "idle"
                /\ result'.outcome = "LoginFailed"]_vars

C3_Witness ==
    /\ pc = "open_w"
    /\ probeRet.kind = "name"
    /\ probeSent = <<Cookie(<<"a", SP>>)>>

\* C4: login_with_username_and_password returns normally exactly when
\* ret.status is "true", raises LoginFailed carrying the payload for every
\* other status, and issues exactly one login request either way.
C4_LoginWithPassword ==
    /\ [](loginRequests <= 1)
    /\ [][pc = "login_with_username_and_password" =>
            /\ loginRequests' = 1
            /\ loginPayload'.status = "true" =>
                  pc' = "open_w" /\ result' = NoResult
            /\ loginPayload'.status # "true" =>
                  /\ pc' = "idle"
                  /\ result' = Result("ensure_authenticated", "LoginFailed",
                                      loginPayload', FALSE)]_vars

C4_Witness ==
    /\ EADone
    /\ result.outcome = "LoginFailed"
    /\ result.payload.status = "True"
    /\ loginRequests = 1

\* a save has completed and nothing has cleared the file since
Saved == lastSaved.has

ClearProperty ==
    [][clear_credentials =>
          /\ credFile.exists => (result'.flag = TRUE /\ ~credFile'.exists)
          /\ ~credFile.exists => (result'.flag = FALSE /\ ~credFile'.exists)]_vars

\* C5 (as claimed): a load after a save gives a credential equal to the one
\* saved; clear_credentials returns true after a save and leaves no
\* credential, and returns false and leaves the file absent when nothing is
\* saved; after any sequence of saves and clears.
C5_RoundTripEqual ==
    /\ [](Saved => (credFile.exists /\ Load(credFile.data) = lastSaved.val))
    /\ ClearProperty

\* C5 (amended): a load after a save gives the saved credential with its
\* leading and trailing whitespace removed, which is the saved credential
\* itself when it has none; the clear_credentials part is as claimed.
C5_RoundTripStripped ==
    /\ [](Saved =>
            /\ credFile.exists
            /\ Load(credFile.data) = Strip(lastSaved.val)
            /\ lastSaved.val \in IssuedTokens => Load(credFile.data) = lastSaved.val)
    /\ ClearProperty

C5_Witness ==
    /\ pc = "login_with_phpsessid"
    /\ via = "stored"
    /\ lastSaved = Cookie(<<SP, "a">>)
    /\ arg.token = <<"a">>

\* C6 (as claimed): in every reachable state the credentials file is absent
\* or holds a complete token line; it is never empty or partial.
C6_NeverHalfWritten ==
    credFile.exists =>
        /\ lastSaved.has
        /\ credFile.data = SaveContents(lastSaved.val)

\* C17: a call of ensure_authenticated that finds the credentials file goes
\* to login_with_phpsessid with the token read from the file (its contents
\* without surrounding whitespace) and probes with that token; the call never
\* is in the interactive flow or at the save; the file is unchanged by every
\* step of the call, whatever the probe answers; an existing file changes
\* only by the save of an interactive login that began without a file, or by
\* clear_credentials removing it.
C17_StoredTokenReplayed ==
    /\ [][(pc = "idle" /\ pc' # "idle" /\ credFile.exists) =>
            /\ pc' = "login_with_phpsessid"
            /\ via' = "stored"
            /\ arg'.token = Strip(credFile.data)
            /\ credFile' = credFile]_vars
    /\ []((via = "stored" /\ pc # "idle") =>
            /\ pc \in {"login_with_phpsessid", "get_login_state"}
            /\ credFile.exists
            /\ arg.token = Strip(credFile.data)
            /\ pc = "get_login_state" => jar = Cookie(arg.token))
    /\ [][via = "stored" /\ pc # "idle" => credFile' = credFile]_vars
    /\ [][(credFile.exists /\ credFile' # credFile) =>
            \/ pc = "print" /\ via = "interactive"
            \/ result'.op = "clear_credentials" /\ ~credFile'.exists]_vars

C17_Witness ==
    /\ pc = "idle"
    /\ via = "stored"
    /\ result.op = "ensure_authenticated"
    /\ result.outcome = "LoginFailed"
    /\ credFile = File(SaveContents(<<"a", "a">>))
    /\ probeSent = <<Cookie(<<"a", "a">>)>>

\* C20: a call of ensure_authenticated that found no credentials file and
\* whose interactive login ends with LoginFailed leaves no credentials file:
\* the file is absent throughout the login and after the failure.
C20_FailedLoginLeavesNoFile ==
    /\ (via = "interactive" /\ pc \in {"interactive_login",
                                       "login_with_username_and_password",
                                       "login_with_phpsessid", "get_login_state"})
          => ~credFile.exists
    /\ (via = "interactive" /\ pc = "idle" /\ result.op = "ensure_authenticated"
        /\ result.outcome = "LoginFailed")
          => ~credFile.exists

C20_Witness ==
    /\ via = "interactive"
    /\ pc = "idle"
    /\ result.op = "ensure_authenticated"
    /\ result.outcome = "LoginFailed"
    /\ probeSent # <<>>
    /\ ~credFile.exists

---------------------------------------------------------------------------
(* _response_paginator *)

DigitChars == <<"0", "1", "2", "3", "4", "5", "6", "7", "8", "9">>

IsDigit(c) == \E d \in 1..10 : DigitChars[d] = c
DigitVal(c) == (CHOOSE d \in 1..10 : DigitChars[d] = c) - 1

RECURSIVE Decimal(_)
\* how the portal writes a page number into a link
Decimal(n) == IF n < 10 THEN <<DigitChars[n + 1]>>
              ELSE Decimal(n \div 10) \o <<DigitChars[(n % 10) + 1]>>

IsNumeral(v) == v # <<>> /\ \A i \in 1..Len(v) : IsDigit(v[i])

RECURSIVE ParseInt(_)
\* int(str) of a string of decimal digits
ParseInt(v) == IF v = <<>> THEN 0
               ELSE 10 * ParseInt(SubSeq(v, 1, Len(v) - 1)) + DigitVal(v[Len(v)])

\* the href of a "Next" anchor: whether its query string has a page key, and
\* the key's value
Href(has, v) == [hasKey |-> has, value |-> v]
HrefFor(k) == Href(TRUE, Decimal(k))
HrefPadded(k) == Href(TRUE, <<"0">> \o Decimal(k))

PageValues ==
    {<<>>, <<"x">>} \cup {Decimal(k) : k \in 0..(MaxPage + 1)}
                    \cup {<<"0">> \o Decimal(k) : k \in 1..(MaxPage + 1)}
Hrefs == {Href(FALSE, <<>>)} \cup {Href(TRUE, v) : v \in PageValues}

\* the hrefs of //span[@class="page"]//a[text()="Next"], in document order
NextHrefLists ==
    {<<>>} \cup {<<h>> : h \in Hrefs} \cup {<<h, HrefFor(1)>> : h \in Hrefs}
Htmls == [nextHrefs : NextHrefLists]

StartPages == {1, 2}

\* qs_get(url, 'page'): parse_qs drops a key whose value is blank
QsGet(href) ==
    IF ~href.hasKey \/ href.value = <<>>
    THEN [kind |-> "KeyError", value |-> <<>>]
    ELSE [kind |-> "ok", value |-> href.value]

\* the assertion of line 219 left out
AfterYield_NoAssert(h, p) ==
    IF h.nextHrefs = <<>> THEN "break"
    ELSE LET q == QsGet(h.nextHrefs[1])
         IN IF q.kind # "ok" THEN q.kind
            ELSE IF ~IsNumeral(q.value) THEN "ValueError"
            ELSE "continue"

\* the link is looked for but its absence does not end the loop
AfterYield_NoBreak(h, p) ==
    IF h.nextHrefs = <<>> THEN "continue"
    ELSE LET q == QsGet(h.nextHrefs[1])
         IN IF q.kind # "ok" THEN q.kind
            ELSE IF ~IsNumeral(q.value) THEN "ValueError"
            ELSE IF p + 1 # ParseInt(q.value) THEN "AssertionError"
            ELSE "continue"

\* lines 215-219: what the generator does when resumed after yielding page p
AfterYield(h, p) ==
    IF h.nextHrefs = <<>> THEN "break"
    ELSE LET q == QsGet(h.nextHrefs[1])
         IN IF q.kind # "ok" THEN q.kind
            ELSE IF ~IsNumeral(q.value) THEN "ValueError"
            ELSE IF p + 1 # ParseInt(q.value) THEN "AssertionError"
            ELSE "continue"

\* client._response_paginator(url, params, page) creates the generator
InitPaginator ==
    /\ StreamFresh
    /\ MainFresh
    /\ ForeachFresh
    /\ CoursesFresh
    /\ ListFresh
    /\ AuthFresh
    /\ CourseFresh
    /\ ExFresh
    /\ pgPc = "created"
    /\ start \in StartPages
    /\ page = 0
    /\ params \in [f : {"news", "hwlist"}, page : {0}]
    /\ html = NoHtml
    /\ requested = <<>>
    /\ served = <<>>
    /\ yielded = <<>>
    /\ pgErr = "none"
    /\ pulls = 0

\* the page number is not stored into the params dict before the GET
IssueGet_StaleParams(p) ==
    /\ page' = p
    /\ params' = params
    /\ requested' = Append(requested, params'.page)
    /\ pgPc' = "awaiting"
    /\ UNCHANGED <<html, pgErr>>

\* lines 210-211: the GET of page p is issued with params['page'] = p
IssueGet(p) ==
    /\ page' = p
    /\ params' = [params EXCEPT !.page = p]
    /\ requested' = Append(requested, params'.page)
    /\ pgPc' = "awaiting"
    /\ UNCHANGED <<html, pgErr>>

\* the consumer's first pull: lines 209-211
paginator_first_anext ==
    /\ UNCHANGED nonPagVars
    /\ pgPc = "created"
    /\ start <= MaxPage
    /\ IssueGet(start)
    /\ pulls' = pulls + 1
    /\ UNCHANGED <<start, served, yielded>>

\* a later pull resumes the generator after the yield: lines 215-219, then
\* lines 209-211 of the next iteration
paginator_anext ==
    /\ UNCHANGED nonPagVars
    /\ pgPc = "suspended"
    /\ LET step == AfterYield(html, page)
       IN IF step = "continue"
          THEN /\ page + 1 <= MaxPage
               /\ IssueGet(page + 1)
          ELSE IF step = "break"
          THEN /\ pgPc' = "done"
               /\ UNCHANGED <<page, params, html, requested, pgErr>>
          ELSE /\ pgPc' = "error"
               /\ pgErr' = step
               /\ UNCHANGED <<page, params, html, requested>>
    /\ pulls' = pulls + 1
    /\ UNCHANGED <<start, served, yielded>>

\* the generator does not wait at its yield: the page is handed over and
\* the GET of the following page goes out at once
paginator_response_Prefetch ==
    /\ UNCHANGED nonPagVars
    /\ pgPc = "awaiting"
    /\ \E h \in Htmls :
         /\ html' = h
         /\ served' = Append(served, h)
         /\ yielded' = Append(yielded, page)
         /\ IF AfterYield(h, page) = "continue" /\ page + 1 <= MaxPage
            THEN /\ page' = page + 1
                 /\ params' = [params EXCEPT !.page = page + 1]
                 /\ requested' = Append(requested, page + 1)
                 /\ pgPc' = "awaiting"
            ELSE /\ pgPc' = "suspended"
                 /\ UNCHANGED <<page, params, requested>>
    /\ UNCHANGED <<start, pgErr, pulls>>

\* lines 211-213: the response arrives, is parsed and yielded
paginator_response ==
    /\ UNCHANGED nonPagVars
    /\ pgPc = "awaiting"
    /\ \E h \in Htmls :
         /\ html' = h
         /\ served' = Append(served, h)
         /\ yielded' = Append(yielded, page)
         /\ pgPc' = "suspended"
    /\ UNCHANGED <<start, page, params, requested, pgErr, pulls>>

NextPaginator ==
    \/ paginator_first_anext
    \/ paginator_anext
    \/ paginator_response

SpecPaginator == InitPaginator /\ [][NextPaginator]_vars

---------------------------------------------------------------------------
(* Properties of SpecPaginator *)

UpTo(n) == [i \in 1..n |-> i]

\* the pages served so far are pages 1..n of a portal whose pages 1..n-1 link
\* to the following page and whose page n has no "Next" link
Chain(n) ==
    /\ Len(served) >= n
    /\ \A i \in 1..(n - 1) : served[i].nextHrefs \in {<<HrefFor(i + 1)>>,
                                                      <<HrefFor(i + 1), HrefFor(1)>>}
    /\ served[n].nextHrefs = <<>>

\* C7: against a portal whose pages 1..N-1 link to the following page and
\* whose page N has no "Next" link, the stream started at page 1 requests and
\* yields exactly the pages 1..N in order, and the pull after page N ends the
\* stream without a request for page N+1.
C7_PaginationTerminates ==
    /\ [](\A n \in 1..(MaxPage + 1) :
            (start = 1 /\ Chain(n)) =>
                /\ requested = UpTo(n)
                /\ yielded = UpTo(n)
                /\ pgPc \in {"suspended", "done"})
    /\ [][(start = 1 /\ pgPc = "suspended" /\ Chain(Len(served))) =>
            (pgPc' = "done" /\ requested' = requested /\ yielded' = yielded)]_vars

C7_Witness ==
    /\ pgPc = "done"
    /\ start = 1
    /\ Chain(MaxPage)
    /\ yielded = UpTo(MaxPage)

\* C14: whatever the portal answers, the page numbers requested are start,
\* start + 1, start + 2, ... without a gap: each request is for the page
\* after the one requested before it, so none repeats and none goes back.
C14_ConsecutivePages ==
    /\ \A i \in 1..Len(requested) : requested[i] = start + i - 1
    /\ \A i, j \in 1..Len(requested) : i < j => requested[i] < requested[j]
    /\ params.page = IF requested = <<>> THEN 0 ELSE requested[Len(requested)]

C14_Witness ==
    /\ start = 2
    /\ requested = <<2, 3>>
    /\ Len(served) = 2
    /\ served[1].nextHrefs = <<HrefFor(3), HrefFor(1)>>

\* the GETs issued and not yet answered
Outstanding == Len(requested) - Len(served)

\* C15: a stream has at most one page fetch outstanding, and only while the
\* generator awaits; it never has issued more requests than its consumer
\* has pulled; a request is issued only in a step in which the consumer
\* pulls, when every page requested before has been yielded.
C15_OneFetchConsumerPaced ==
    /\ [](/\ Outstanding \in {0, 1}
          /\ Outstanding = 1 <=> pgPc = "awaiting"
          /\ Len(requested) <= pulls
          /\ served # <<>> => Len(yielded) = Len(served))
    /\ [][requested' # requested =>
            /\ pulls' = pulls + 1
            /\ yielded = requested
            /\ Len(requested') = Len(requested) + 1]_vars
    /\ [][pulls' = pulls => requested' = requested]_vars

C15_Witness ==
    /\ pgPc = "suspended"
    /\ pulls = 2
    /\ yielded = <<1, 2>>
    /\ requested = <<1, 2>>
    /\ AfterYield(html, page) = "continue"

\* the first "Next" link of h encodes a page number other than p + 1
Mismatch(h, p) ==
    /\ h.nextHrefs # <<>>
    /\ \E k \in 0..(MaxPage + 1) :
         k # p + 1 /\ h.nextHrefs[1] \in {HrefFor(k), HrefPadded(k)}

\* C8: a page whose "Next" link encodes a page number other than the current
\* page + 1 is the last page requested: the pull after it raises
\* AssertionError, issues no request, and the generator stays ended.
C8_MismatchIsHardError ==
    /\ [](\A i \in 1..Len(served) :
            Mismatch(served[i], requested[i]) => i = Len(requested))
    /\ [][(pgPc = "suspended" /\ Mismatch(html, page)) =>
            (pgPc' = "error" /\ pgErr' = "AssertionError"
             /\ requested' = requested /\ yielded' = yielded)]_vars
    /\ [][pgPc = "error" => pgPc' = "error"]_vars

C8_Witness ==
    /\ pgPc = "error"
    /\ pgErr = "AssertionError"
    /\ Len(yielded) = 2
    /\ html.nextHrefs[1] = HrefFor(page + 2)

---------------------------------------------------------------------------
(* get_course *)

CourseIds == {74, 40596, 46274}
CourseNames == {"iLMS", "Parallel Programming"}

COURSE_PATH == "/course.php"
COURSE_LOGIN_PATH == "/course_login.php"

\* the text nodes of //div[@class="infoPath"]/a, in document order
InfoPathTexts ==
    {<<>>} \cup {<<n>> : n \in CourseNames}
           \cup {<<n, "iLMS">> : n \in CourseNames}

\* what the portal answers a course lookup with: an empty body, or a page
\* with its breadcrumb texts and its "add" control, at the final URL's path
CourseResponses ==
    [empty : {TRUE}, names : {<<>>}, add : {FALSE},
     path : {COURSE_PATH, COURSE_LOGIN_PATH}]
    \cup
    [empty : {FALSE}, names : InfoPathTexts, add : BOOLEAN,
     path : {COURSE_PATH, COURSE_LOGIN_PATH}]

MSG_EMPTY == "Empty response returned for course, the course probably doesn't exist"
MSG_NO_ACCESS == "No access to course"

CourseResult(kind, msg, course) == [kind |-> kind, msg |-> msg, course |-> course]

\* lines 157-182
GetCourse(course_id, resp) ==
    IF resp.empty
    THEN CourseResult("UserError", MSG_EMPTY, NoCourse)
    ELSE IF Len(resp.names) # 1
    THEN CourseResult("ValueError", "", NoCourse)
    ELSE LET course == [id |-> course_id, name |-> resp.names[1],
                        is_admin |-> resp.add]
         IN IF resp.path = COURSE_LOGIN_PATH
            THEN CourseResult("UserError", MSG_NO_ACCESS, course)
            ELSE CourseResult("Course", "", course)

InitCourse ==
    /\ StreamFresh
    /\ MainFresh
    /\ ForeachFresh
    /\ CoursesFresh
    /\ ListFresh
    /\ AuthFresh
    /\ PagFresh
    /\ ExFresh
    /\ CourseFresh

\* lines 149-156: the GET of course.php?courseID=<id>&f=hwlist is issued
get_course ==
    /\ UNCHANGED nonCourseVars
    /\ gcPc \in {"idle", "done"}
    /\ \E course_id \in CourseIds : gcId' = course_id
    /\ gcPc' = "awaiting"
    /\ UNCHANGED <<gcResp, gcResult>>

\* lines 157-182: the response is read and judged
get_course_response ==
    /\ UNCHANGED nonCourseVars
    /\ gcPc = "awaiting"
    /\ \E resp \in CourseResponses :
         /\ gcResp' = resp
         /\ gcResult' = GetCourse(gcId, resp)
    /\ gcPc' = "done"
    /\ UNCHANGED gcId

NextCourse ==
    \/ get_course
    \/ get_course_response

SpecCourse == InitCourse /\ [][NextCourse]_vars

---------------------------------------------------------------------------
(* Properties of SpecCourse *)

\* C9 (as claimed): an empty body raises UserError (course probably does not
\* exist); a response redirected to /course_login.php raises UserError with
\* the no-access message whatever the page contains; a page with the
\* breadcrumb name and no redirect returns the Course.
C9_ThreeOutcomes ==
    gcPc = "done" =>
        /\ gcResp.empty =>
              (gcResult.kind = "UserError" /\ gcResult.msg = MSG_EMPTY)
        /\ (~gcResp.empty /\ gcResp.path = COURSE_LOGIN_PATH) =>
              (gcResult.kind = "UserError" /\ gcResult.msg = MSG_NO_ACCESS)
        /\ (~gcResp.empty /\ gcResp.path # COURSE_LOGIN_PATH
              /\ Len(gcResp.names) = 1) =>
              /\ gcResult.kind = "Course"
              /\ gcResult.course = [id |-> gcId, name |-> gcResp.names[1],
                                    is_admin |-> gcResp.add]

---------------------------------------------------------------------------
(* The extractors: get_announcements, get_materials, get_discussions,     *)
(* get_homeworks, over the rows of one parsed page                         *)

Kinds == {"news", "doclist", "forumlist", "hwlist"}

\* the text of an element: a string, or None
Text(has, v) == [has |-> has, val |-> v]
NoText == Text(FALSE, "")

\* an anchor: its href attribute (absent, or a URL whose query string has the
\* id key or not), its text, and the class attribute of its parent
Anchor(hasHref, href, text, cls) ==
    [hasHref |-> hasHref, href |-> href, text |-> text, parentClass |-> cls]

GoodAnchor(k) == Anchor(TRUE, HrefFor(k), Text(TRUE, "t"), Text(TRUE, "Econtent"))

Anchors ==
    { GoodAnchor(1), GoodAnchor(2),
      Anchor(FALSE, Href(FALSE, <<>>), Text(TRUE, "t"), Text(TRUE, "Econtent")),
      Anchor(TRUE, Href(FALSE, <<>>), Text(TRUE, "t"), Text(TRUE, "Econtent")),
      Anchor(TRUE, Href(TRUE, <<"x">>), Text(TRUE, "t"), Text(TRUE, "Econtent")),
      Anchor(TRUE, HrefFor(1), NoText, Text(TRUE, "Econtent")),
      Anchor(TRUE, HrefFor(1), Text(TRUE, "t"), NoText) }

\* a tr element: its class attribute ("" when it has none), the anchors at
\* the place the extractor looks for the id link (td[1]/a for news and
\* forumlist, td[2]/div/a for doclist, td[2]/a for hwlist), and the text
\* nodes at the place it looks for the title (td[2]//a/text() for news,
\* td[2]//a/span/text() for forumlist)
Row(cls, links, titles) == [cls |-> cls, links |-> links, titles |-> titles]

LinkLists == {<<>>} \cup {<<a>> : a \in Anchors} \cup {<<GoodAnchor(1), GoodAnchor(2)>>}
TitleLists == {<<>>, <<"t">>, <<"t", "u">>}

Rows ==
    { Row("header", <<GoodAnchor(1)>>, <<"t">>), Row("", <<GoodAnchor(1)>>, <<"t">>) }
    \cup { Row("row", l, t) : l \in LinkLists, t \in TitleLists }

Pages == SeqsUpTo(Rows, MaxRows)

\* the predicate [@class!="header"] dropped: every tr is a result row
RowSelected_All(r) == TRUE

\* tr[@class!="header"]: a tr without a class attribute does not match
RowSelected(r) == r.cls # "" /\ r.cls # "header"

Item(r, a) == [row |-> r, a |-> a]
NoAnchor == Anchor(FALSE, Href(FALSE, <<>>), NoText, NoText)

RECURSIVE AnchorItems(_, _)
AnchorItems(r, links) ==
    IF links = <<>> THEN <<>>
    ELSE <<Item(r, Head(links))>> \o AnchorItems(r, Tail(links))

RECURSIVE XPath(_, _)
\* the node list the extractor's for loop runs over, each node with its row:
\* lines 241 and 262 (the rows), 252 (every td[2]/div/a), 273 (td[2]/a[1])
XPath(kind, rows) ==
    IF rows = <<>> THEN <<>>
    ELSE LET r == Head(rows)
             here == IF ~RowSelected(r) THEN <<>>
                     ELSE IF kind \in {"news", "forumlist"} THEN <<Item(r, NoAnchor)>>
                     ELSE IF kind = "doclist" THEN AnchorItems(r, r.links)
                     ELSE IF r.links = <<>> THEN <<>>
                     ELSE <<Item(r, r.links[1])>>
         IN here \o XPath(kind, Tail(rows))

HasHref(a) == a.hasHref

Rec(kind, id, title, type, course) ==
    [kind |-> kind, id |-> id, title |-> title, type |-> type, course |-> course]
NoRec == Rec("none", 0, NoText, NoText, 0)

Made(rec) == [kind |-> "record", rec |-> rec]
Raised(e) == [kind |-> e, rec |-> NoRec]

\* int(qs_get(href, key))
IdOf(href) ==
    LET q == QsGet(href)
    IN IF q.kind # "ok" THEN [kind |-> q.kind, n |-> 0]
       ELSE IF ~IsNumeral(q.value) THEN [kind |-> "ValueError", n |-> 0]
       ELSE [kind |-> "ok", n |-> ParseInt(q.value)]

\* lines 242-248 and 263-269: the body of the loop over rows
ExtractRow(kind, r, course) ==
    LET hrefs == SelectSeq(r.links, HasHref)
    IN IF Len(hrefs) # 1 THEN Raised("ValueError")
       ELSE IF Len(r.titles) # 1 THEN Raised("ValueError")
       ELSE LET id == IdOf(hrefs[1].href)
            IN IF id.kind # "ok" THEN Raised(id.kind)
               ELSE Made(Rec(kind, id.n, Text(TRUE, r.titles[1]), NoText, course))

\* lines 253-258 and 274-278: the body of the loop over anchors
ExtractAnchor(kind, a, course) ==
    IF ~a.hasHref THEN Raised("KeyError")
    ELSE LET id == IdOf(a.href)
         IN IF id.kind # "ok" THEN Raised(id.kind)
            ELSE IF kind = "doclist" /\ ~a.parentClass.has THEN Raised("KeyError")
            ELSE Made(Rec(kind, id.n, a.text,
                          IF kind = "doclist" THEN a.parentClass ELSE NoText,
                          course))

Extract(kind, item, course) ==
    IF kind \in {"news", "forumlist"}
    THEN ExtractRow(kind, item.row, course)
    ELSE ExtractAnchor(kind, item.a, course)

\* the extractor is called on a Course for a parsed page
InitExtract ==
    /\ StreamFresh
    /\ MainFresh
    /\ ForeachFresh
    /\ CoursesFresh
    /\ ListFresh
    /\ AuthFresh
    /\ PagFresh
    /\ CourseFresh
    /\ exPc = "running"
    /\ exKind \in Kinds
    /\ exCourse \in {74, 40596}
    /\ exRows \in Pages
    /\ exIdx = 0
    /\ exOut = <<>>
    /\ exErr = "none"

\* the consumer pulls: the loop takes the next node, and yields its record or
\* raises; with no node left the extractor ends
extractor_anext ==
    /\ UNCHANGED nonExVars
    /\ exPc = "running"
    /\ LET nodes == XPath(exKind, exRows)
       IN IF exIdx >= Len(nodes)
          THEN /\ exPc' = "done"
               /\ UNCHANGED <<exIdx, exOut, exErr>>
          ELSE LET got == Extract(exKind, nodes[exIdx + 1], exCourse)
               IN /\ exIdx' = exIdx + 1
                  /\ IF got.kind = "record"
                     THEN /\ exOut' = Append(exOut, got.rec)
                          /\ UNCHANGED <<exPc, exErr>>
                     ELSE /\ exPc' = "error"
                          /\ exErr' = got.kind
                          /\ UNCHANGED exOut
    /\ UNCHANGED <<exKind, exCourse, exRows>>

NextExtract == extractor_anext

SpecExtract == InitExtract /\ [][NextExtract]_vars

---------------------------------------------------------------------------
(* Properties of SpecExtract *)

\* the row lacks the id-bearing link or the title element
Missing(kind, r) ==
    IF kind \in {"news", "forumlist"}
    THEN SelectSeq(r.links, HasHref) = <<>> \/ r.titles = <<>>
    ELSE r.links = <<>> \/ ~r.links[1].hasHref \/ ~r.links[1].text.has

\* the result rows in document order
ResultRows == SelectSeq(exRows, RowSelected)

\* C10 (as claimed): a result row that lacks the id-bearing link or the title
\* element makes the extractor raise CannotUnderstand: the extractor never
\* ends normally over such a row, and never raises another error kind at it.
C10_MissingRaisesCannotUnderstand ==
    /\ exPc = "done" => \A i \in 1..Len(ResultRows) : ~Missing(exKind, ResultRows[i])
    /\ (exPc = "error" /\ Missing(exKind, XPath(exKind, exRows)[exIdx].row)) =>
           exErr = "CannotUnderstand"

---------------------------------------------------------------------------
(* get_announcements: the loop over rows inside the loop over pages *)

HeaderRow == Row("header", <<GoodAnchor(1)>>, <<"t">>)
NewsRow1 == Row("row", <<GoodAnchor(1)>>, <<"t">>)
NewsRow2 == Row("row", <<GoodAnchor(2)>>, <<"u">>)
LinklessRow == Row("row", <<>>, <<"t">>)

\* the row lists of the listing pages the portal serves
ListingPages ==
    { <<>>, <<HeaderRow>>, <<HeaderRow, NewsRow1>>,
      <<HeaderRow, NewsRow1, NewsRow2>>, <<HeaderRow, NewsRow2, NewsRow1>>,
      <<HeaderRow, LinklessRow, NewsRow1>> }

\* the "Next" anchors of page p: none, the following page, or another page
ListingLinks(p) == {<<>>, <<HrefFor(p + 1)>>, <<HrefFor(p + 2)>>}

\* course.get_announcements(client): _item_paginator(client, 'news') with
\* the default page=1; nothing runs before the first pull
InitAnnouncements ==
    /\ StreamFresh
    /\ MainFresh
    /\ ForeachFresh
    /\ CoursesFresh
    /\ AuthFresh
    /\ CourseFresh
    /\ pgPc = "created"
    /\ start = 1
    /\ page = 0
    /\ params = [f |-> "news", page |-> 0]
    /\ html = NoHtml
    /\ requested = <<>>
    /\ served = <<>>
    /\ yielded = <<>>
    /\ pgErr = "none"
    /\ pulls = 0
    /\ exPc = "running"
    /\ exKind = "news"
    /\ exCourse \in {74, 40596}
    /\ exRows = <<>>
    /\ exIdx = 0
    /\ exOut = <<>>
    /\ exErr = "none"
    /\ lsPc = "waiting"
    /\ servedRows = <<>>

\* the consumer pulls the next Announcement
announcements_anext ==
    /\ UNCHANGED nonListingVars
    /\ lsPc = "waiting"
    /\ exPc = "running"
    /\ lsPc' = "busy"
    /\ UNCHANGED <<pagVars, exVars, servedRows>>

\* the generator runs up to its next yield, await or end: line 240 (the
\* paginator is pulled: lines 209-211, 215-219) and lines 241-248
announcements_run ==
    /\ UNCHANGED nonListingVars
    /\ lsPc = "busy"
    /\ pgPc \in {"created", "suspended"}
    /\ LET nodes == XPath(exKind, exRows)
       IN IF pgPc = "created"
          THEN /\ IssueGet(start)
               /\ pulls' = pulls + 1
               /\ UNCHANGED <<lsPc, exVars>>
          ELSE IF exIdx < Len(nodes)
          THEN LET got == Extract(exKind, nodes[exIdx + 1], exCourse)
               IN /\ exIdx' = exIdx + 1
                  /\ lsPc' = "waiting"
                  /\ IF got.kind = "record"
                     THEN /\ exOut' = Append(exOut, got.rec)
                          /\ UNCHANGED <<exPc, exErr>>
                     ELSE /\ exPc' = "error"
                          /\ exErr' = got.kind
                          /\ UNCHANGED exOut
                  /\ UNCHANGED <<pgPc, page, params, html, requested, pgErr,
                                 pulls, exKind, exCourse, exRows>>
          ELSE LET step == AfterYield(html, page)
               IN IF step = "continue"
                  THEN /\ page + 1 <= MaxPage
                       /\ IssueGet(page + 1)
                       /\ pulls' = pulls + 1
                       /\ UNCHANGED <<lsPc, exVars>>
                  ELSE /\ pgPc' = IF step = "break" THEN "done" ELSE "error"
                       /\ pgErr' = IF step = "break" THEN pgErr ELSE step
                       /\ exPc' = IF step = "break" THEN "done" ELSE "error"
                       /\ exErr' = IF step = "break" THEN exErr ELSE step
                       /\ lsPc' = "waiting"
                       /\ pulls' = pulls + 1
                       /\ UNCHANGED <<page, params, html, requested, exKind,
                                      exCourse, exRows, exIdx, exOut>>
    /\ UNCHANGED <<start, served, yielded, servedRows>>

\* lines 211-213 and 240-241: the response arrives, the paginator yields the
\* parsed page and the loop over its rows starts
announcements_response ==
    /\ UNCHANGED nonListingVars
    /\ pgPc = "awaiting"
    /\ \E rows \in ListingPages, links \in ListingLinks(page) :
         /\ html' = [nextHrefs |-> links]
         /\ served' = Append(served, html')
         /\ servedRows' = Append(servedRows, rows)
         /\ exRows' = rows
    /\ yielded' = Append(yielded, page)
    /\ exIdx' = 0
    /\ pgPc' = "suspended"
    /\ UNCHANGED <<start, page, params, requested, pgErr, pulls, exPc, exKind,
                   exCourse, exOut, exErr, lsPc>>

NextAnnouncements ==
    \/ announcements_anext
    \/ announcements_run
    \/ announcements_response

SpecAnnouncements == InitAnnouncements /\ [][NextAnnouncements]_vars

---------------------------------------------------------------------------
(* Properties of SpecAnnouncements *)

\* a header row, or a result row with one id link and one title
WellFormedRow(r) ==
    \/ r.cls = "header"
    \/ /\ r.cls # ""
       /\ Len(r.titles) = 1
       /\ \E k \in 0..9 : r.links = <<GoodAnchor(k)>>

WellFormedPages ==
    \A i \in 1..Len(servedRows) :
        \A j \in 1..Len(servedRows[i]) : WellFormedRow(servedRows[i][j])

AnnouncementOf(r) ==
    Rec("news", CHOOSE k \in 0..9 : r.links[1].href = HrefFor(k),
        Text(TRUE, r.titles[1]), NoText, exCourse)

RECURSIVE AnnouncementsOf(_)
\* one Announcement per result row of a page, in document order
AnnouncementsOf(rows) ==
    IF rows = <<>> THEN <<>>
    ELSE (IF Head(rows).cls = "header" THEN <<>> ELSE <<AnnouncementOf(Head(rows))>>)
         \o AnnouncementsOf(Tail(rows))

RECURSIVE Flatten(_)
Flatten(pages) ==
    IF pages = <<>> THEN <<>>
    ELSE AnnouncementsOf(Head(pages)) \o Flatten(Tail(pages))

IsPrefix(a, b) == Len(a) <= Len(b) /\ SubSeq(b, 1, Len(a)) = a

\* C11: over well-formed listing pages, what get_announcements has yielded
\* is, whenever it waits for its consumer, every Announcement of the pages
\* before the current one followed by the first ones of the current page, in
\* document order, each with the id of its row's link, its row's title and
\* the requesting course; a new page is requested only when the current page
\* is used up; at the end every row of every page has been yielded once.
C11_AnnouncementsInOrder ==
    /\ [](WellFormedPages =>
            /\ IsPrefix(exOut, Flatten(servedRows))
            /\ (servedRows # <<>> /\ pgPc # "awaiting" /\ lsPc = "waiting") =>
                  exOut = Flatten(SubSeq(servedRows, 1, Len(servedRows) - 1))
                          \o SubSeq(AnnouncementsOf(servedRows[Len(servedRows)]),
                                    1, exIdx)
            /\ pgPc = "awaiting" => exOut = Flatten(servedRows)
            /\ exPc = "done" => exOut = Flatten(servedRows)
            /\ exPc = "error" => pgPc = "error")
    /\ [][WellFormedPages => IsPrefix(exOut, exOut')]_vars

C11_Witness ==
    /\ exPc = "done"
    /\ WellFormedPages
    /\ Len(servedRows) = 2
    /\ exOut = <<Rec("news", 2, Text(TRUE, "u"), NoText, 40596),
                 Rec("news", 1, Text(TRUE, "t"), NoText, 40596),
                 Rec("news", 1, Text(TRUE, "t"), NoText, 40596)>>

---------------------------------------------------------------------------
(* get_courses: one Course per anchor of the all-courses listing *)

\* the href of a listing anchor: the text up to and including the last
\* slash, and the characters after it
CourseHref(prefix, rest) == [prefix |-> prefix, rest |-> rest]

RECURSIVE LeadingDigits(_)
\* what \d+ takes from the start of v
LeadingDigits(v) ==
    IF v = <<>> \/ ~IsDigit(Head(v)) THEN <<>>
    ELSE <<Head(v)>> \o LeadingDigits(Tail(v))

\* re.search in place of re.match: the pattern is found anywhere
ReMatch_Search(href) ==
    [matched |-> href.prefix \in {"/course/", "/home/course/"}
                 /\ LeadingDigits(href.rest) # <<>>,
     group1 |-> LeadingDigits(href.rest)]

\* re.match(r'/course/(\d+)', href): anchored at the start, open at the end
ReMatch(href) ==
    [matched |-> href.prefix = "/course/" /\ LeadingDigits(href.rest) # <<>>,
     group1 |-> LeadingDigits(href.rest)]

\* an a element of the listing: the text of each b child, the href
\* attribute, the anchor's own text
ListAnchor(bolds, hasHref, href, text) ==
    [bolds |-> bolds, hasHref |-> hasHref, href |-> href, text |-> text]

ListAnchors ==
    { ListAnchor(<<>>, TRUE, CourseHref("/course/", <<"7", "4">>), "iLMS"),
      ListAnchor(<<"Parallel Programming">>, TRUE,
                 CourseHref("/course/", <<"4", "6", "2", "7", "4">>), ""),
      ListAnchor(<<>>, TRUE, CourseHref("/course/", <<"0", "7", "4">>), "iLMS"),
      ListAnchor(<<>>, TRUE, CourseHref("/course/", <<"7", "4", "x">>), "iLMS"),
      ListAnchor(<<"iLMS">>, TRUE, CourseHref("/course/", <<>>), ""),
      ListAnchor(<<>>, TRUE, CourseHref("/course", <<"7", "4">>), "iLMS"),
      ListAnchor(<<>>, TRUE, CourseHref("/home/course/", <<"7", "4">>), "iLMS"),
      ListAnchor(<<"iLMS", "iLMS">>, TRUE, CourseHref("/course/", <<"7", "4">>), ""),
      ListAnchor(<<>>, FALSE, CourseHref("", <<>>), "iLMS") }

CoursePages == SeqsUpTo(ListAnchors, MaxAnchors)

CourseMade(course) == [kind |-> "course", course |-> course]
CourseRaised(e) == [kind |-> e, course |-> NoCourse]

\* lines 189-206: the body of the loop for one anchor
GetCoursesItem(a) ==
    IF Len(a.bolds) > 1 THEN CourseRaised("ValueError")
    ELSE IF ~a.hasHref THEN CourseRaised("KeyError")
    ELSE LET m == ReMatch(a.href)
         IN IF ~m.matched THEN CourseRaised("CannotUnderstand")
            ELSE CourseMade([id |-> ParseInt(m.group1),
                             name |-> IF a.bolds # <<>> THEN a.bolds[1] ELSE a.text,
                             is_admin |-> a.bolds # <<>>])

InitCourses ==
    /\ StreamFresh
    /\ MainFresh
    /\ ForeachFresh
    /\ AuthFresh
    /\ PagFresh
    /\ CourseFresh
    /\ ExFresh
    /\ ListFresh
    /\ CoursesFresh

\* the consumer pulls: the first pull issues the GET of line 185, a later
\* one resumes the loop after the yield of line 202
get_courses_anext ==
    /\ UNCHANGED nonCoursesVars
    /\ csPc \in {"created", "suspended"}
    /\ csPc' = IF csPc = "created" THEN "awaiting" ELSE "running"
    /\ UNCHANGED <<csAnchors, csIdx, csOut, csErr>>

\* lines 185-188: the response is parsed and its anchors selected
get_courses_response ==
    /\ UNCHANGED nonCoursesVars
    /\ csPc = "awaiting"
    /\ \E anchors \in CoursePages : csAnchors' = anchors
    /\ csPc' = "running"
    /\ UNCHANGED <<csIdx, csOut, csErr>>

\* lines 188-206: the loop takes the next anchor, or ends
get_courses_run ==
    /\ UNCHANGED nonCoursesVars
    /\ csPc = "running"
    /\ IF csIdx = Len(csAnchors)
       THEN /\ csPc' = "done"
            /\ UNCHANGED <<csIdx, csOut, csErr>>
       ELSE LET got == GetCoursesItem(csAnchors[csIdx + 1])
            IN /\ csIdx' = csIdx + 1
               /\ IF got.kind = "course"
                  THEN /\ csOut' = Append(csOut, got.course)
                       /\ csPc' = "suspended"
                       /\ UNCHANGED csErr
                  ELSE /\ csErr' = got.kind
                       /\ csPc' = "error"
                       /\ UNCHANGED csOut
    /\ UNCHANGED csAnchors

NextCourses ==
    \/ get_courses_anext
    \/ get_courses_response
    \/ get_courses_run

SpecCourses == InitCourses /\ [][NextCourses]_vars

---------------------------------------------------------------------------
(* Properties of SpecCourses *)

\* an anchor with a URL and at most one bold marker
ShapedAnchor(a) == a.hasHref /\ Len(a.bolds) <= 1

\* the URL starts with /course/ followed by a digit
UrlHasPattern(a) ==
    /\ a.href.prefix = "/course/"
    /\ a.href.rest # <<>>
    /\ IsDigit(a.href.rest[1])

\* the number written right after /course/
UrlNumber(a) ==
    CHOOSE n \in 0..99999 :
        \E junk \in {<<>>, <<"x">>}, pad \in {<<>>, <<"0">>} :
            a.href.rest = pad \o Decimal(n) \o junk

\* C12: when every anchor of the all-courses listing has a URL and at most
\* one bold marker, get_courses yields the anchors' Courses one by one in
\* document order, the i-th Course from the i-th anchor, with is_admin true
\* exactly when the anchor has the bold marker and the id the number after
\* /course/; it stops with CannotUnderstand at the first anchor whose URL
\* does not have the pattern, and it ends normally only after a Course for
\* every anchor.
C12_OneCoursePerAnchor ==
    (\A i \in 1..Len(csAnchors) : ShapedAnchor(csAnchors[i])) =>
        /\ Len(csOut) <= Len(csAnchors)
        /\ \A i \in 1..Len(csOut) :
              /\ UrlHasPattern(csAnchors[i])
              /\ csOut[i].id = UrlNumber(csAnchors[i])
              /\ csOut[i].is_admin = (Len(csAnchors[i].bolds) = 1)
        /\ csPc # "error" => csIdx = Len(csOut) /\ csErr = "none"
        /\ csPc = "done" => Len(csOut) = Len(csAnchors)
        /\ csPc = "error" =>
              /\ csErr = "CannotUnderstand"
              /\ csIdx = Len(csOut) + 1
              /\ ~UrlHasPattern(csAnchors[csIdx])

C12_Witness ==
    /\ csPc = "error"
    /\ csErr = "CannotUnderstand"
    /\ Len(csAnchors) = 2
    /\ Len(csAnchors[1].bolds) = 1
    /\ csOut = <<[id |-> 46274, name |-> "Parallel Programming", is_admin |-> TRUE]>>

---------------------------------------------------------------------------
(* foreach_course: the Courses of a list of requested ids *)

\* a course id of the command line: the word enrolled, or a numeral
Enrolled == [enrolled |-> TRUE, text |-> <<>>]
IdArg(n) == [enrolled |-> FALSE, text |-> Decimal(n)]

IdArgs == {Enrolled, IdArg(74), IdArg(40596)}

IdLists == SeqsUpTo(IdArgs, MaxIds)

\* the listings the portal answers foreach_course with
EnrolledPages ==
    {anchors \in SeqsUpTo(ListAnchors, 2) :
        \A i \in 1..Len(anchors) :
            /\ ShapedAnchor(anchors[i])
            /\ anchors[i].href.rest \in {<<"7", "4">>, <<"4", "6", "2", "7", "4">>}
            /\ anchors[i].href.prefix \in {"/course/", "/course"}}

\* the ids taken from last to first
ForeachArg_Reversed(ids, i) == ids[Len(ids) + 1 - i]

\* line 347: the i-th id the loop takes
ForeachArg(ids, i) == ids[i]

InitForeach ==
    /\ StreamFresh
    /\ MainFresh
    /\ AuthFresh
    /\ PagFresh
    /\ CourseFresh
    /\ ExFresh
    /\ ListFresh
    /\ CoursesFresh
    /\ fcPc = "next"
    /\ fcIds \in IdLists
    /\ fcIdx = 0
    /\ fcTaken = 0
    /\ fcOut = <<>>
    /\ fcErr = "none"
    /\ fcHist = <<>>

HistEntry(id, resp, anchors) == [arg |-> id, resp |-> resp, anchors |-> anchors]

\* lines 347-352: the loop takes the next id and starts its lookup: a new
\* get_courses generator, or the call of get_course (lines 149-156)
foreach_course_next ==
    /\ UNCHANGED nonForeachVars
    /\ fcPc = "next"
    /\ IF fcIdx = Len(fcIds)
       THEN /\ fcPc' = "done"
            /\ UNCHANGED <<fcIdx, courseVars, coursesVars>>
       ELSE LET course_id == ForeachArg(fcIds, fcIdx + 1)
            IN /\ fcIdx' = fcIdx + 1
               /\ IF course_id.enrolled
                  THEN /\ fcPc' = "enrolled"
                       /\ csPc' = "created"
                       /\ csAnchors' = <<>>
                       /\ csIdx' = 0
                       /\ csOut' = <<>>
                       /\ csErr' = "none"
                       /\ UNCHANGED courseVars
                  ELSE /\ fcPc' = "lookup"
                       /\ gcId' = ParseInt(course_id.text)
                       /\ gcPc' = "awaiting"
                       /\ gcResp' = NoCourseResp
                       /\ gcResult' = NoCourseResult
                       /\ UNCHANGED coursesVars
    /\ fcTaken' = 0
    /\ UNCHANGED <<fcIds, fcOut, fcErr, fcHist>>

\* line 352: get_course has returned or raised
foreach_course_lookup ==
    /\ UNCHANGED nonForeachVars
    /\ fcPc = "lookup"
    /\ gcPc = "done"
    /\ fcHist' = Append(fcHist, HistEntry(fcIds[fcIdx], gcResp, <<>>))
    /\ IF gcResult.kind = "Course"
       THEN /\ fcOut' = Append(fcOut, gcResult.course)
            /\ fcPc' = "next"
            /\ UNCHANGED fcErr
       ELSE /\ fcErr' = gcResult.kind
            /\ fcPc' = "raised"
            /\ UNCHANGED fcOut
    /\ UNCHANGED <<fcIds, fcIdx, fcTaken, courseVars, coursesVars>>

\* lines 349-350: the Course get_courses has yielded is yielded on
foreach_course_yield ==
    /\ UNCHANGED nonForeachVars
    /\ fcPc = "enrolled"
    /\ csPc = "suspended"
    /\ fcTaken < Len(csOut)
    /\ fcOut' = Append(fcOut, csOut[Len(csOut)])
    /\ fcTaken' = fcTaken + 1
    /\ UNCHANGED <<fcPc, fcIds, fcIdx, fcErr, fcHist, courseVars, coursesVars>>

\* line 349: get_courses has ended or raised
foreach_course_enrolled_end ==
    /\ UNCHANGED nonForeachVars
    /\ fcPc = "enrolled"
    /\ csPc \in {"done", "error"}
    /\ fcHist' = Append(fcHist, HistEntry(fcIds[fcIdx], NoCourseResp, csAnchors))
    /\ fcPc' = IF csPc = "done" THEN "next" ELSE "raised"
    /\ fcErr' = IF csPc = "done" THEN fcErr ELSE csErr
    /\ UNCHANGED <<fcIds, fcIdx, fcTaken, fcOut, courseVars, coursesVars>>

\* the pulls of line 349 and the answers of the portal
ForeachPulls == fcPc = "enrolled" /\ fcTaken = Len(csOut)

NextForeach ==
    \/ foreach_course_next
    \/ foreach_course_lookup
    \/ foreach_course_yield
    \/ foreach_course_enrolled_end
    \/ get_course_response
    \/ ForeachPulls /\ get_courses_anext
    \/ get_courses_response /\ csAnchors' \in EnrolledPages
    \/ get_courses_run

SpecForeach == InitForeach /\ [][NextForeach]_vars

---------------------------------------------------------------------------
(* Properties of SpecForeach *)

RECURSIVE ListedCourses(_)
\* the Courses of a listing up to its first anchor that raises
ListedCourses(anchors) ==
    IF anchors = <<>> \/ GetCoursesItem(Head(anchors)).kind # "course" THEN <<>>
    ELSE <<GetCoursesItem(Head(anchors)).course>> \o ListedCourses(Tail(anchors))

\* what one finished id contributes
CoursesOf(h) ==
    IF h.arg.enrolled THEN ListedCourses(h.anchors)
    ELSE IF GetCourse(ParseInt(h.arg.text), h.resp).kind = "Course"
    THEN <<GetCourse(ParseInt(h.arg.text), h.resp).course>>
    ELSE <<>>

RECURSIVE Concat(_)
Concat(hist) ==
    IF hist = <<>> THEN <<>> ELSE CoursesOf(Head(hist)) \o Concat(Tail(hist))

LookupRunning == fcPc \in {"lookup", "enrolled"}

\* C19: foreach_course takes the ids in the order given; what it has yielded
\* is the concatenation, in that order, of the one Course of each finished
\* numeric id and the whole listing of each finished "enrolled", followed by
\* the Courses of the listing still running; while a lookup is awaited
\* everything of the ids before it has been yielded; after an error nothing
\* more is requested or yielded, and it ends normally only after all ids.
C19_SequentialInOrder ==
    /\ [](/\ \A i \in 1..Len(fcHist) : fcHist[i].arg = fcIds[i]
          /\ Len(fcHist) = IF LookupRunning THEN fcIdx - 1 ELSE fcIdx
          /\ fcOut = Concat(fcHist)
                     \o (IF fcPc = "enrolled" THEN SubSeq(csOut, 1, fcTaken)
                         ELSE <<>>)
          /\ (gcPc = "awaiting" \/ csPc = "awaiting") =>
                /\ LookupRunning
                /\ fcOut = Concat(fcHist)
          /\ fcPc = "done" => Len(fcHist) = Len(fcIds)
          /\ fcPc = "raised" => fcErr # "none" /\ fcHist # <<>>)
    /\ [][fcPc = "raised" => UNCHANGED <<fcOut, gcPc, csPc, fcPc>>]_vars

C19_Witness ==
    /\ fcPc = "raised"
    /\ fcIds = <<Enrolled, IdArg(74)>>
    /\ Len(fcHist) = 2
    /\ Len(fcOut) = 2
    /\ fcErr = "UserError"

---------------------------------------------------------------------------
(* main: one run of the command *)

\* the course ids a run is given
MainIdLists == SeqsUpTo(IdArgs, 1)

\* line 402: the client is constructed; the credentials file is what an
\* earlier run left
InitMain ==
    /\ StreamFresh
    /\ PagFresh
    /\ CourseFresh
    /\ ExFresh
    /\ ListFresh
    /\ CoursesFresh
    /\ ForeachFresh
    /\ credFile \in {NoFile} \cup {File(SaveContents(t)) : t \in IssuedTokens}
    /\ jar = NoCookie
    /\ pc = "idle"
    /\ via = "none"
    /\ arg = NoArg
    /\ result = NoResult
    /\ loginRequests = 0
    /\ probeSent = <<>>
    /\ probePage = NoPage
    /\ probeRet = NoRet
    /\ loginPayload = NoPayload
    /\ log = <<>>
    /\ lastSaved = IF credFile.exists
                   THEN Cookie(Strip(credFile.data)) ELSE NoCookie
    /\ mPc = "logout"
    /\ mLogout \in BOOLEAN
    /\ mLogin \in BOOLEAN
    /\ mIds \in MainIdLists
    /\ mChanged = FALSE
    /\ mOut = ""
    /\ mErr = "none"

\* lines 404-405: clear_credentials is called when --logout is given
MainCallsClear == mPc = "logout" /\ mLogout /\ result.op # "clear_credentials"

\* lines 404-405: past the logout
main_logout ==
    /\ UNCHANGED nonMainVars
    /\ mPc = "logout"
    /\ IF mLogout
       THEN /\ result.op = "clear_credentials"
            /\ mChanged' = (mChanged \/ result.flag)
       ELSE UNCHANGED mChanged
    /\ mPc' = "login"
    /\ UNCHANGED <<mLogout, mLogin, mIds, mOut, mErr, foreachVars>>

\* lines 406-407: ensure_authenticated is called when --login is given
MainCallsLogin == mPc = "login" /\ mLogin /\ result.op # "ensure_authenticated"

\* lines 406-408: past the login, or out of main with its exception
main_login ==
    /\ UNCHANGED nonMainVars
    /\ mPc = "login"
    /\ IF ~mLogin
       THEN /\ mPc' = "courses"
            /\ UNCHANGED <<mChanged, mErr>>
       ELSE /\ pc = "idle"
            /\ result.op = "ensure_authenticated"
            /\ IF result.outcome = "ok"
               THEN /\ mChanged' = TRUE
                    /\ mPc' = "courses"
                    /\ UNCHANGED mErr
               ELSE /\ mErr' = result.outcome
                    /\ mPc' = "raised"
                    /\ UNCHANGED mChanged
    /\ UNCHANGED <<mLogout, mLogin, mIds, mOut, foreachVars>>

\* lines 409-410 and 413-414: foreach_course is called when ids are given
main_courses ==
    /\ UNCHANGED nonMainVars
    /\ mPc = "courses"
    /\ IF mIds = <<>>
       THEN /\ mPc' = "done"
            /\ mOut' = IF mChanged THEN mOut ELSE "Nothing to do"
            /\ UNCHANGED foreachVars
       ELSE /\ mPc' = "foreach"
            /\ fcPc' = "next"
            /\ fcIds' = mIds
            /\ UNCHANGED <<mOut, fcIdx, fcTaken, fcOut, fcErr, fcHist>>
    /\ UNCHANGED <<mLogout, mLogin, mIds, mChanged, mErr>>

\* lines 410-414: the list is complete and the table printed, or
\* foreach_course raised
main_table ==
    /\ UNCHANGED nonMainVars
    /\ mPc = "foreach"
    /\ fcPc \in {"done", "raised"}
    /\ IF fcPc = "done"
       THEN /\ mOut' = "table"
            /\ mChanged' = TRUE
            /\ mPc' = "done"
            /\ UNCHANGED mErr
       ELSE /\ mErr' = fcErr
            /\ mPc' = "raised"
            /\ UNCHANGED <<mOut, mChanged>>
    /\ UNCHANGED <<mLogout, mLogin, mIds, foreachVars>>

NextMain ==
    \/ MainCallsClear /\ clear_credentials
    \/ main_logout
    \/ MainCallsLogin /\ ensure_authenticated
    \/ interactive_login
    \/ login_with_username_and_password
    \/ login_with_phpsessid
    \/ get_login_state
    \/ ensure_authenticated_open_w
    \/ ensure_authenticated_print
    \/ main_login
    \/ main_courses
    \/ foreach_course_next
    \/ foreach_course_lookup
    \/ foreach_course_yield
    \/ foreach_course_enrolled_end
    \/ get_course_response
    \/ ForeachPulls /\ get_courses_anext
    \/ get_courses_response /\ csAnchors' \in EnrolledPages
    \/ get_courses_run
    \/ main_table

SpecMain == InitMain /\ [][NextMain]_vars

---------------------------------------------------------------------------
(* Properties of SpecMain *)

\* C13: in a run with --logout and --login, ensure_authenticated is called
\* only after clear_credentials has returned and with no credentials file
\* left, and the login of that run never takes the stored-token path: it
\* goes through the interactive flow.
C13_LogoutThenInteractiveLogin ==
    /\ []((mLogout /\ mLogin) =>
            /\ via # "stored"
            /\ (pc # "idle" \/ result.op = "ensure_authenticated") =>
                  via = "interactive")
    /\ [][(mLogout /\ mLogin /\ pc = "idle" /\ pc' # "idle") =>
            /\ mPc = "login"
            /\ ~credFile.exists
            /\ pc' = "interactive_login"]_vars

C13_Witness ==
    /\ mLogout
    /\ mLogin
    /\ mChanged
    /\ mPc = "login"
    /\ pc = "interactive_login"

\* a request for course data is on its way or has been answered
DataRequested == gcPc # "idle" \/ csPc # "created"

\* C18: no get_course or get_courses request is issued in a run before
\* ensure_authenticated has returned successfully in that run.
C18_AuthenticatedBeforeData ==
    DataRequested => (result.op = "ensure_authenticated" /\ result.outcome = "ok")

---------------------------------------------------------------------------
(* Two pagination streams of _item_paginator, interleaved *)

Streams == 1..2

\* who creates a stream: a Course and the kind of its items
StreamOwners == [course : {74, 40596}, f : {"news", "hwlist"}]

\* one dict for every caller
NewDict_Shared(s) == 1

\* lines 233-236: the dict display is evaluated in every call, which gives
\* every stream a dict of its own
NewDict(s) == s

InitStreams ==
    /\ AuthFresh
    /\ PagFresh
    /\ CourseFresh
    /\ ExFresh
    /\ ListFresh
    /\ CoursesFresh
    /\ ForeachFresh
    /\ MainFresh
    /\ stSelf \in {o \in [Streams -> StreamOwners] : o[1] # o[2]}
    /\ stPc = [s \in Streams |-> "none"]
    /\ stRef = [s \in Streams |-> 0]
    /\ stDicts = [a \in Streams |-> NoDict]
    /\ stPage = [s \in Streams |-> 0]
    /\ stHtml = [s \in Streams |-> NoHtml]
    /\ stReq = [s \in Streams |-> <<>>]

\* lines 230-237: course._item_paginator(client, f) builds the params dict
\* and creates the generator
item_paginator(s) ==
    /\ UNCHANGED nonStreamVars
    /\ stPc[s] = "none"
    /\ stRef' = [stRef EXCEPT ![s] = NewDict(s)]
    /\ stDicts' = [stDicts EXCEPT ![NewDict(s)] =
                      [courseID |-> stSelf[s].course, f |-> stSelf[s].f, page |-> 0]]
    /\ stPc' = [stPc EXCEPT ![s] = "created"]
    /\ UNCHANGED <<stSelf, stPage, stHtml, stReq>>

\* lines 209-211 for stream s: the page is stored into the stream's dict and
\* the GET goes out with what the dict then holds
StreamGet(s, p) ==
    /\ stPage' = [stPage EXCEPT ![s] = p]
    /\ stDicts' = [stDicts EXCEPT ![stRef[s]].page = p]
    /\ stReq' = [stReq EXCEPT ![s] = Append(@, stDicts'[stRef[s]])]
    /\ stPc' = [stPc EXCEPT ![s] = "awaiting"]

\* the consumer of stream s pulls: lines 209-211, or 215-219 and 209-211
stream_anext(s) ==
    /\ UNCHANGED nonStreamVars
    /\ stPc[s] \in {"created", "suspended"}
    /\ IF stPc[s] = "created"
       THEN StreamGet(s, 1)
       ELSE LET step == AfterYield(stHtml[s], stPage[s])
            IN IF step = "continue"
               THEN /\ stPage[s] + 1 <= MaxPage
                    /\ StreamGet(s, stPage[s] + 1)
               ELSE /\ stPc' = [stPc EXCEPT ![s] =
                                   IF step = "break" THEN "done" ELSE "error"]
                    /\ UNCHANGED <<stPage, stDicts, stReq>>
    /\ UNCHANGED <<stSelf, stRef, stHtml>>

\* lines 211-213 for stream s: its response arrives and is yielded
stream_response(s) ==
    /\ UNCHANGED nonStreamVars
    /\ stPc[s] = "awaiting"
    /\ \E links \in ListingLinks(stPage[s]) :
         stHtml' = [stHtml EXCEPT ![s] = [nextHrefs |-> links]]
    /\ stPc' = [stPc EXCEPT ![s] = "suspended"]
    /\ UNCHANGED <<stSelf, stRef, stDicts, stPage, stReq>>

NextStreams ==
    \E s \in Streams :
        \/ item_paginator(s)
        \/ stream_anext(s)
        \/ stream_response(s)

SpecStreams == InitStreams /\ [][NextStreams]_vars

---------------------------------------------------------------------------
(* Properties of SpecStreams *)

\* C16: two streams created for different kinds or courses do not affect
\* each other, however their steps interleave: every request of a stream
\* carries the course and the kind the stream was created for, its i-th
\* request asks for page i, and the stream's page counter is the page of
\* its last request.
C16_StreamsIndependent ==
    \A s \in Streams :
        /\ \A i \in 1..Len(stReq[s]) :
              stReq[s][i] = [courseID |-> stSelf[s].course, f |-> stSelf[s].f,
                             page |-> i]
        /\ stPage[s] = Len(stReq[s])
        /\ stPc[s] \notin {"none"} =>
              /\ stDicts[stRef[s]].courseID = stSelf[s].course
              /\ stDicts[stRef[s]].f = stSelf[s].f
              /\ stDicts[stRef[s]].page = stPage[s]

C16_Witness ==
    /\ stSelf[1].course = stSelf[2].course
    /\ stSelf[1].f # stSelf[2].f
    /\ Len(stReq[1]) = 3
    /\ Len(stReq[2]) = 2
    /\ stPc[1] = "awaiting"
    /\ stPc[2] = "awaiting"

====
